---- MODULE Spec2Model ----
(***************************************************************************)
(* The search traversal of wsk.py: class Search (run, search,              *)
(* get_documents_by_range and the index / date helpers) driven against a   *)
(* deterministic model of the remote search service.                       *)
(*                                                                         *)
(* Dates are day ordinals (datetime + timedelta(days=n) is integer         *)
(* addition); the service's date restriction is inclusive on both ends.    *)
(* A document is <<day, k>>: the k-th document published on that day.      *)
(*                                                                         *)
(* The last section models WSK.get_all_sources, the descent through the    *)
(* service's tree of source folders.                                       *)
(***************************************************************************)
EXTENDS Integers, Sequences, FiniteSets, TLC

VARIABLES
  self,      \* the Search object (its attributes, wsk.py 344-363)
  docs,      \* service fixture: day -> number of matching documents
  bad,       \* service fixture: the documents whose container cannot be parsed
  svc,       \* service status policy: "ok", "failAll", "failWide", "failRange"
  pc,        \* position of the run() generator: new, loop, yield, done, raised, closed
  pending,   \* the batch handed out by `yield results`, not yet saved
  fetches,   \* log of the requests POSTed by search / get_documents_by_range
  yielded,   \* batches delivered to the caller by `yield results`
  saved,     \* batches passed to session.save_results
  fatals,    \* query_start_date of each ' ! Please submit a more specific search'
  caller,    \* what the caller asked for: the keyword arguments and attributes it set
  completed, \* how many times run() has returned on this Search object
  tree,      \* service fixture: the folders of the source tree and their sources
  walk       \* get_all_sources: its position, its locals and the folders it requested

vars == <<self, docs, bad, svc, pc, pending, fetches, yielded, saved, fatals, caller, completed,
          tree, walk>>

----------------------------------------------------------------------------
(* Bounds of the model *)

MaxEnd == 4        \* end_date ranges over start_date .. start_date + MaxEnd
MaxDocs == 1       \* documents per day in the fixture
MaxPerPage == 3    \* per_page ranges over 1 .. MaxPerPage
MaxTimeDelta == 3  \* a caller-set time_delta ranges over 1 .. MaxTimeDelta
MaxPresetEnd == 2  \* end_date of a Search with a caller-set time_delta
MaxRuns == 2       \* run() is called at most MaxRuns times on one Search object
MaxParseEnd == 1   \* end_date of a traversal over documents that fail to parse
MaxBad == 1        \* documents of the fixture that fail to parse
MaxFolders == 4    \* folders of the source tree
MaxSources == 1    \* sources of one leaf folder

----------------------------------------------------------------------------
(* Values *)

\* float('inf'), the "unknown" total_results
Inf == -1

\* search_id = None
NoId == 0

Min(a, b) == IF a < b THEN a ELSE b
Max(a, b) == IF a > b THEN a ELSE b

\* a slip: the division rounds down (integer division before math.ceil)
CeilDiv_floor(a, b) == a \div b

\* math.ceil(a / b) for positive b
CeilDiv(a, b) == (a + b - 1) \div b

\* int(text) raising ValueError
ValueError == -2

\* the characters of a decimal numeral
DigitChars == <<"0", "1", "2", "3", "4", "5", "6", "7", "8", "9">>

DigitValue(c) == CHOOSE d \in 0..9 : DigitChars[d + 1] = c

RECURSIVE Decimal(_)
\* the decimal numeral of n >= 0, as the service writes a count
Decimal(n) ==
  IF n < 10 THEN <<DigitChars[n + 1]>>
  ELSE Decimal(n \div 10) \o <<DigitChars[(n % 10) + 1]>>

RECURSIVE NumeralValue(_)
NumeralValue(text) ==
  IF text = <<>> THEN 0
  ELSE 10 * NumeralValue(SubSeq(text, 1, Len(text) - 1)) + DigitValue(text[Len(text)])

\* int(text) of a tag's text: its value, or ValueError for text that is empty
\* or has a character that is not a digit
int(text) ==
  IF text /= <<>> /\ \A k \in 1..Len(text) : \E d \in 1..10 : DigitChars[d] = text[k]
    THEN NumeralValue(text)
    ELSE ValueError

\* a < b where either may be float('inf')
LtInf(a, b) == IF a = Inf THEN FALSE ELSE IF b = Inf THEN TRUE ELSE a < b

----------------------------------------------------------------------------
(* The remote service *)

\* the documents published on day d, in service order
DayDocs(d) == IF d \in DOMAIN docs THEN [k \in 1..docs[d] |-> <<d, k>>] ELSE <<>>

RECURSIVE WindowDocs(_, _)
\* the matches of a search restricted to [qs, qe], sorted by date
WindowDocs(qs, qe) == IF qs > qe THEN <<>> ELSE DayDocs(qs) \o WindowDocs(qs + 1, qe)

\* <documentRange><begin>b</begin><end>e</end>: the 1-indexed inclusive slice
Page(list, b, e) == SubSeq(list, b, Min(e, Len(list)))

\* response.status_code of one request
ServiceStatus(mode, qs, qe) ==
  CASE svc = "ok" -> 200
    [] svc = "failAll" -> 500
    [] svc = "failWide" -> IF mode = "SEARCH" /\ qe - qs > 1 THEN 500 ELSE 200
    [] svc = "failRange" -> IF mode = "RANGE" THEN 500 ELSE 200
    [] svc \in {"noCount", "emptyCount", "badCount"} -> 200

\* the tags of a Search response answered 200
SearchTags == IF svc = "noCount" THEN {"searchid"} ELSE {"searchid", "documentsfound"}

\* the text of <documentsFound> for a search with n matches
CountText(n) ==
  CASE svc = "emptyCount" -> <<>>
    [] svc = "badCount" -> <<"n", "/", "a">>
    [] OTHER -> Decimal(n)

\* the body answering a Search request; id is the handle the service assigns
SearchResponse(qs, qe, b, e, id) ==
  IF ServiceStatus("SEARCH", qs, qe) = 200
    THEN [status |-> 200, tags |-> SearchTags, searchid |-> id,
          documentsfound |-> CountText(Len(WindowDocs(qs, qe))),
          containers |-> Page(WindowDocs(qs, qe), b, e)]
    ELSE [status |-> 500, tags |-> {}, searchid |-> NoId, documentsfound |-> <<>>,
          containers |-> <<>>]

\* the body answering a GetDocumentsByRange request for handle sid
RangeResponse(log, sid, qs, qe, b, e) ==
  IF ServiceStatus("RANGE", qs, qe) = 200 /\ sid \in 1..Len(log)
    THEN [status |-> 200, tags |-> {}, searchid |-> NoId, documentsfound |-> <<>>,
          containers |-> Page(WindowDocs(log[sid].qs, log[sid].qe), b, e)]
    ELSE [status |-> ServiceStatus("RANGE", qs, qe), tags |-> {}, searchid |-> NoId,
          documentsfound |-> <<>>, containers |-> <<>>]

----------------------------------------------------------------------------
(* class Search *)

\* Search.__init__
SearchInit(end, pp, yr, sr) ==
  [start_date |-> 0, end_date |-> end, per_page |-> pp,
   yield_results |-> yr, save_results |-> sr,
   search_id |-> NoId, total_results |-> Inf,
   result_start |-> 1, result_end |-> pp, time_delta |-> 1,
   query_start_date |-> 0, query_end_date |-> 0 + 1,
   more_days_to_query |-> TRUE, more_pages_to_query |-> TRUE]

reset_result_indices(s) ==
  [s EXCEPT !.result_start = 1, !.result_end = s.per_page, !.total_results = Inf]

\* a slip: only result_end is moved
advance_result_indices_end_only(s) ==
  [s EXCEPT !.result_end = @ + s.per_page]

advance_result_indices(s) ==
  [s EXCEPT !.result_start = @ + s.per_page, !.result_end = @ + s.per_page]

\* a slip: only the start of the window is moved
advance_date_range_start_only(s) ==
  reset_result_indices([s EXCEPT !.query_start_date = @ + s.time_delta])

advance_date_range(s) ==
  reset_result_indices(
    [s EXCEPT !.query_start_date = @ + s.time_delta,
              !.query_end_date = @ + s.time_delta])

get_search_id(resp) == IF "searchid" \in resp.tags THEN resp.searchid ELSE NoId

\* find_tag_by_name returns None for a missing tag: AttributeError, caught;
\* the ValueError of int() is not caught
get_result_count(resp) ==
  IF "documentsfound" \in resp.tags THEN int(resp.documentsfound) ELSE 0

\* Document(doc_soup=i) raises for a container that cannot be parsed
Parses(c) == c \notin bad

\* a slip: the try is around the loop, one failure drops the page's records
get_documents_page_fails(resp) ==
  IF \A k \in 1..Len(resp.containers) : Parses(resp.containers[k])
    THEN resp.containers
    ELSE <<>>

\* one record per document container that parses, in container order
get_documents(resp) == SelectSeq(resp.containers, Parses)

\* the log entry of one request
FetchEntry(mode, s, resp, sid) ==
  [mode |-> mode, qs |-> s.query_start_date, qe |-> s.query_end_date,
   begin |-> s.result_start, end |-> s.result_end, td |-> s.time_delta,
   status |-> resp.status, sid |-> sid,
   total |-> IF mode = "SEARCH" THEN get_result_count(resp) ELSE Inf,
   containers |-> resp.containers]

RECURSIVE search(_, _)
\* Search.search: returns the object, the results, the request log, whether the
\* floor message was printed and whether an exception left the call
search(s, log) ==
  LET resp == SearchResponse(s.query_start_date, s.query_end_date,
                             s.result_start, s.result_end, Len(log) + 1)
      log1 == Append(log, FetchEntry("SEARCH", s, resp, get_search_id(resp)))
  IN IF resp.status /= 200 /\ s.time_delta > 1
       THEN LET td == CeilDiv(s.time_delta, 2)
            IN search([s EXCEPT !.time_delta = td,
                                !.query_end_date = s.query_start_date + td], log1)
       ELSE LET s0 == [s EXCEPT !.search_id = get_search_id(resp)]
                n == get_result_count(resp)
                s1 == [s0 EXCEPT !.total_results = n]
                fatal == IF resp.status /= 200 THEN <<s.query_start_date>> ELSE <<>>
            IN IF n = ValueError
                 THEN [s |-> s0, results |-> <<>>, log |-> log1, fatal |-> fatal,
                       raised |-> TRUE]
                 ELSE [s |-> s1,
                       results |-> IF s1.total_results = 0 THEN <<>> ELSE get_documents(resp),
                       log |-> log1, fatal |-> fatal, raised |-> FALSE]

\* Search.get_documents_by_range
get_documents_by_range(s, log) ==
  LET resp == RangeResponse(log, s.search_id, s.query_start_date, s.query_end_date,
                            s.result_start, s.result_end)
  IN [s |-> s, results |-> get_documents(resp),
      log |-> Append(log, FetchEntry("RANGE", s, resp, s.search_id)),
      fatal |-> <<>>, raised |-> FALSE]

\* run(), lines 417-420: the request of one iteration
FetchPage(s, log) ==
  IF s.result_start = 1 THEN search(s, log) ELSE get_documents_by_range(s, log)

\* a slip: the window slides without the test against end_date
NoResultsCase_no_end_test(s) ==
  IF s.total_results = 0
    THEN advance_date_range([s EXCEPT !.more_pages_to_query = FALSE])
    ELSE s

\* run(), lines 426-433
NoResultsCase(s) ==
  IF s.total_results = 0
    THEN LET s1 == [s EXCEPT !.more_pages_to_query = FALSE]
         IN IF s1.query_end_date < s1.end_date
              THEN advance_date_range(s1)
              ELSE [s1 EXCEPT !.more_days_to_query = FALSE]
    ELSE s

\* a slip: time_delta grows after every slide
ExtendTimeDelta_unconditional(s) == [s EXCEPT !.time_delta = @ + 1]

\* the widening test of line 443, read after advance_date_range
ExtendTimeDelta(s) ==
  IF s.total_results /= Inf /\ 2 * s.total_results < s.per_page
    THEN [s EXCEPT !.time_delta = @ + 1]
    ELSE s

\* a slip: <= where the code has <
PaginateCase_off_by_one(s) ==
  IF s.total_results = Inf \/ s.result_end <= s.total_results
    THEN advance_result_indices(s)
    ELSE LET s1 == [s EXCEPT !.more_pages_to_query = FALSE]
         IN IF s1.query_end_date < s1.end_date
              THEN ExtendTimeDelta(advance_date_range(s1))
              ELSE [s1 EXCEPT !.more_days_to_query = FALSE]

\* run(), lines 435-446
PaginateCase(s) ==
  IF LtInf(s.result_end, s.total_results)
    THEN advance_result_indices(s)
    ELSE LET s1 == [s EXCEPT !.more_pages_to_query = FALSE]
         IN IF s1.query_end_date < s1.end_date
              THEN ExtendTimeDelta(advance_date_range(s1))
              ELSE [s1 EXCEPT !.more_days_to_query = FALSE]

\* run(), lines 426-446: what follows the handling of the results
Decide(s) == PaginateCase(NoResultsCase(s))

\* a batch as delivered, with the index of the request that produced it
Batch(results, log) == [docs |-> results, fetch |-> Len(log)]

\* a slip: the `if results:` test of line 422 left out
Save_unguarded(s, log, results, b) == IF s.save_results THEN Append(log, b) ELSE log

\* `if results:` and session.save_results(results), lines 422 and 424
Save(s, log, results, b) == IF s.save_results /\ results /= <<>> THEN Append(log, b) ELSE log

----------------------------------------------------------------------------
(* Bound on the request log *)

RECURSIVE SumDocs(_)
SumDocs(d) == IF d \in DOMAIN docs THEN docs[d] + SumDocs(d + 1) ELSE 0

\* A traversal visits at most end_date - start_date + 1 windows (each advance
\* moves query_start_date by time_delta >= 1); consecutive windows share at most
\* their end day, so the windows' totals add up to at most 2 * SumDocs(0); a
\* window of N matches needs max(1, ceil(N / per_page)) <= 1 + N / per_page
\* requests.  No traversal that paginates each window once needs more than:
FetchBound ==
  (self.end_date - self.start_date + 1) + (2 * SumDocs(0)) \div self.per_page

\* every retry of search() lowers time_delta, which run() never raises above
\* what the caller left: at most this many requests are retries
ShrinkBound == caller.time_delta - 1

----------------------------------------------------------------------------
(* Initial states *)

Policies == {"ok", "failAll", "failWide", "failRange"}

InitObservers ==
  /\ pc = "new"
  /\ pending = <<>>
  /\ fetches = <<>>
  /\ yielded = <<>>
  /\ saved = <<>>
  /\ fatals = <<>>
  /\ completed = 0
  /\ tree = [parent |-> <<>>, nsrc |-> <<>>]
  /\ walk = [pc |-> "idle", sub_folders |-> <<>>, sources |-> <<>>, browsed |-> <<>>]

\* the keyword arguments of a call, and the time_delta the caller leaves or sets
Kwargs(end, pp, yr, sr, td) ==
  [start_date |-> 0, end_date |-> end, per_page |-> pp,
   yield_results |-> yr, save_results |-> sr, time_delta |-> td]

\* every request within the bounds
InitBounded ==
  /\ \E end \in 0..MaxEnd, pp \in 1..MaxPerPage, yr \in BOOLEAN, sr \in BOOLEAN :
       /\ self = SearchInit(end, pp, yr, sr)
       /\ caller = Kwargs(end, pp, yr, sr, 1)
       /\ docs \in [0..(end + 1) -> 0..MaxDocs]
  /\ bad = {}
  /\ svc \in Policies
  /\ InitObservers

\* the three-day scenario: 25, 3 and 3 documents, pages of 10
InitScenario ==
  /\ \E yr \in BOOLEAN, sr \in BOOLEAN :
       /\ self = SearchInit(2, 10, yr, sr)
       /\ caller = Kwargs(2, 10, yr, sr, 1)
  /\ docs = [d \in 0..3 |-> <<25, 3, 3, 0>>[d + 1]]
  /\ bad = {}
  /\ svc = "ok"
  /\ InitObservers

Init == InitBounded \/ InitScenario

\* WSK.search(**kwargs), lines 322-332: the Search it creates
WSK_search(kw) ==
  SearchInit(kw.start_date, kw.per_page, kw.yield_results, kw.save_results)

\* every call of the public entry point WSK.search within the bounds
InitWSK ==
  /\ \E end \in 0..MaxEnd, pp \in 1..MaxPerPage, yr \in BOOLEAN, sr \in BOOLEAN :
       /\ caller = Kwargs(end, pp, yr, sr, 1)
       /\ self = WSK_search(caller)
       /\ docs \in [0..(end + 1) -> 0..MaxDocs]
  /\ bad = {}
  /\ svc \in Policies
  /\ InitObservers

\* a Search whose caller assigned time_delta and the matching query_end_date
\* (public attributes) between construction and run()
Preset(s, td) ==
  [s EXCEPT !.time_delta = td, !.query_end_date = s.query_start_date + td]

InitPreset ==
  /\ \E end \in 0..MaxPresetEnd, pp \in 1..MaxPerPage, yr \in BOOLEAN, sr \in BOOLEAN,
        td \in 1..MaxTimeDelta :
       /\ self = Preset(SearchInit(end, pp, yr, sr), td)
       /\ caller = Kwargs(end, pp, yr, sr, td)
       /\ docs \in [0..(end + 1) -> 0..MaxDocs]
  /\ bad = {}
  /\ svc \in Policies
  /\ InitObservers

\* services that answer every request 200 and differ in the <documentsFound>
\* they send: a numeral, no tag, an empty tag, text that is not a numeral
CountPolicies == {"ok", "noCount", "emptyCount", "badCount"}

InitDecode ==
  /\ \E end \in 0..MaxPresetEnd, pp \in 1..MaxPerPage, yr \in BOOLEAN, sr \in BOOLEAN :
       /\ self = SearchInit(end, pp, yr, sr)
       /\ caller = Kwargs(end, pp, yr, sr, 1)
       /\ docs \in [0..(end + 1) -> 0..MaxDocs]
  /\ bad = {}
  /\ svc \in CountPolicies
  /\ InitObservers

\* the documents of the fixture
AllDocs == {dk \in (DOMAIN docs) \X (1..(MaxDocs + 1)) : dk[2] <= docs[dk[1]]}

\* traversals over fixtures in which up to MaxBad documents cannot be parsed
InitParse ==
  /\ \E end \in 0..MaxParseEnd, pp \in 1..MaxPerPage, yr \in BOOLEAN, sr \in BOOLEAN :
       /\ self = SearchInit(end, pp, yr, sr)
       /\ caller = Kwargs(end, pp, yr, sr, 1)
       /\ docs \in [0..(end + 1) -> 0..(MaxDocs + 1)]
  /\ bad \in {b \in SUBSET AllDocs : Cardinality(b) <= MaxBad}
  /\ svc = "ok"
  /\ InitObservers

----------------------------------------------------------------------------
(* Actions *)

\* a slip: run() re-arms the loop flags the way __init__ sets them
RunEntry_rearmed(s) ==
  reset_result_indices([s EXCEPT !.more_days_to_query = TRUE,
                                 !.more_pages_to_query = TRUE])

\* run(), lines 411-413: the outer while tested once, then reset_result_indices
RunEntry(s) == IF s.more_days_to_query THEN reset_result_indices(s) ELSE s

\* first next() on the generator: into the loops, or straight to the return
RunStart ==
  /\ pc = "new"
  /\ self' = RunEntry(self)
  /\ IF self'.more_days_to_query
       THEN pc' = "loop" /\ completed' = completed
       ELSE pc' = "done" /\ completed' = completed + 1
  /\ UNCHANGED <<docs, bad, svc, pending, fetches, yielded, saved, fatals, caller, tree, walk>>

\* one iteration of the inner while, up to `yield results` when it yields, or
\* up to the exception that ends the generator
Fetch ==
  /\ pc = "loop"
  /\ self.more_days_to_query \/ self.more_pages_to_query
  /\ Len(fetches) <= FetchBound + ShrinkBound
  /\ LET r == FetchPage(self, fetches)
         b == Batch(r.results, r.log)
     IN /\ fetches' = r.log
        /\ fatals' = fatals \o r.fatal
        /\ IF r.raised
             THEN /\ self' = r.s
                  /\ pc' = "raised"
                  /\ UNCHANGED <<yielded, pending, saved>>
             ELSE IF r.results /= <<>> /\ self.yield_results
             THEN /\ yielded' = Append(yielded, b)
                  /\ pending' = r.results
                  /\ self' = r.s
                  /\ pc' = "yield"
                  /\ saved' = saved
             ELSE /\ saved' = Save(r.s, saved, r.results, b)
                  /\ self' = Decide(r.s)
                  /\ pc' = "loop"
                  /\ UNCHANGED <<yielded, pending>>
  /\ UNCHANGED <<docs, bad, svc, caller, completed, tree, walk>>

\* the caller asks for the next batch: the iteration continues after the yield
Resume ==
  /\ pc = "yield"
  /\ saved' = Save(self, saved, pending, Batch(pending, fetches))
  /\ self' = Decide(self)
  /\ pending' = <<>>
  /\ pc' = "loop"
  /\ UNCHANGED <<docs, bad, svc, fetches, yielded, fatals, caller, completed, tree, walk>>

\* both loop conditions are false: run() returns
Finish ==
  /\ pc = "loop"
  /\ ~(self.more_days_to_query \/ self.more_pages_to_query)
  /\ pc' = "done"
  /\ completed' = completed + 1
  /\ UNCHANGED <<self, docs, bad, svc, pending, fetches, yielded, saved, fatals, caller, tree, walk>>

\* the caller calls run() on the same Search object once more
RunAgain ==
  /\ pc = "done"
  /\ completed < MaxRuns
  /\ pc' = "new"
  /\ UNCHANGED <<self, docs, bad, svc, pending, fetches, yielded, saved, fatals, caller, completed, tree, walk>>

\* the caller stops consuming after the batch it was handed (break, or the
\* generator is dropped): the generator is closed at its yield
Abandon ==
  /\ pc = "yield"
  /\ pc' = "closed"
  /\ UNCHANGED <<self, docs, bad, svc, pending, fetches, yielded, saved, fatals, caller, completed, tree, walk>>

Next == RunStart \/ Fetch \/ Resume \/ Finish

Spec == Init /\ [][Next]_vars

\* traversals started through WSK.search
SpecWSK == InitWSK /\ [][Next]_vars

\* traversals of a Search whose caller set time_delta
SpecPreset == InitPreset /\ [][Next]_vars

\* traversals whose caller calls run() again after it returned
SpecRerun == Init /\ [][Next \/ RunAgain]_vars

\* traversals against services that differ in the <documentsFound> they send
SpecDecode == InitDecode /\ [][Next]_vars

\* traversals over documents some of which cannot be parsed
SpecParse == InitParse /\ [][Next]_vars

\* traversals whose caller may stop consuming after any batch
SpecAbandon == Init /\ [][Next \/ Abandon]_vars

\* the generator is driven to its end by a caller that consumes every batch
FairSpec == Spec /\ WF_vars(Next)

----------------------------------------------------------------------------
(* Observations used by the properties *)

\* the batches run() has emitted: to the caller when it yields, else to the sink
Emitted == IF self.yield_results THEN yielded ELSE saved

Emits == self.yield_results \/ self.save_results

RECURSIVE Flatten(_)
\* the documents of a sequence of batches, in emission order
Flatten(bs) == IF bs = <<>> THEN <<>> ELSE Head(bs).docs \o Flatten(Tail(bs))

\* how often x occurs in seq
Count(seq, x) == Cardinality({i \in 1..Len(seq) : seq[i] = x})

Done == pc = "done"

\* the traversal has issued more requests than any traversal that halts needs
Overrun == Len(fetches) > FetchBound

\* run() is paginating a window whose total is unknown: result_end < inf holds
\* on every later iteration and get_documents_by_range never sets total_results
Stuck == pc = "loop" /\ self.result_start > 1 /\ self.total_results = Inf

\* once Stuck, run() stays Stuck: the loop never ends
StuckForever == [][Stuck => Stuck']_vars

\* the date window of the request that produced batch b
BatchWindow(b) == fetches[b.fetch].qs

\* the first result index of the request that produced batch b
BatchPage(b) == fetches[b.fetch].begin

----------------------------------------------------------------------------
(* C1: with a service that always answers 200, when run() has finished the  *)
(* documents emitted are exactly the fixture documents dated within         *)
(* [start_date, end_date], each emitted once, none from outside the range.  *)
C1_FullCoverage ==
  (Done /\ svc = "ok" /\ Emits) =>
    \A d \in DOMAIN docs : \A k \in 1..docs[d] :
      Count(Flatten(Emitted), <<d, k>>) =
        IF d \in self.start_date..self.end_date THEN 1 ELSE 0

(* C2: with a service that always answers 200 and reports correct totals,   *)
(* run() halts after finitely many requests: while it has not finished it   *)
(* has issued no more requests than a halting traversal needs.              *)
C2_Halts == (svc = "ok" /\ ~Done) => ~Overrun

(* C3: emitted batches are in non-decreasing date-window order and, within  *)
(* one window, in strictly ascending page order.                            *)
Ordered(bs) ==
  \A i \in 1..(Len(bs) - 1) :
    /\ BatchWindow(bs[i]) <= BatchWindow(bs[i + 1])
    /\ BatchWindow(bs[i]) = BatchWindow(bs[i + 1]) => BatchPage(bs[i]) < BatchPage(bs[i + 1])

C3_Ordering == Ordered(yielded) /\ Ordered(saved)

\* three batches emitted: two pages of one window, then one of a later window
C3_Witness ==
  /\ Len(yielded) >= 3
  /\ BatchWindow(yielded[1]) = BatchWindow(yielded[2])
  /\ BatchWindow(yielded[2]) < BatchWindow(yielded[3])

\* a traversal overruns only by looping in Stuck
OverrunOnlyWhenStuck == Overrun => Stuck

(* C4: a window for which the service reports total_matches = N is fetched  *)
(* with exactly ceil(N / per_page) requests before run() moves on.          *)
\* the requests issued while the engine was on the window of request i
FetchesFor(i) == Cardinality({j \in 1..Len(fetches) : fetches[j].qs = fetches[i].qs})

\* request i is a Search the service answered with a total
Reported(i) == fetches[i].mode = "SEARCH" /\ fetches[i].status = 200

\* run() has left the window of request i
WindowDone(i) == Done \/ self.query_start_date /= fetches[i].qs

C4_PageCount ==
  \A i \in 1..Len(fetches) :
    (Reported(i) /\ WindowDone(i)) =>
      FetchesFor(i) = CeilDiv(fetches[i].total, self.per_page)

(* C4, amended: a window reported with N >= 1 matches is fetched with       *)
(* exactly ceil(N / per_page) requests, and one reported with N = 0 with    *)
(* exactly one (the Search that reports the 0); never more while under way. *)
C4_PageCountAmended ==
  \A i \in 1..Len(fetches) :
    Reported(i) =>
      /\ FetchesFor(i) <= Max(1, CeilDiv(fetches[i].total, self.per_page))
      /\ WindowDone(i) =>
           FetchesFor(i) = Max(1, CeilDiv(fetches[i].total, self.per_page))

\* run() has finished after an empty window and after a window of several pages
C4_Witness ==
  /\ Done
  /\ \E i \in 1..Len(fetches) : Reported(i) /\ fetches[i].total = 0
  /\ \E i \in 1..Len(fetches) : Reported(i) /\ FetchesFor(i) >= 2

(* C5: after a completed window with total_matches < per_page / 2 and more  *)
(* days to query, the first request of the next window is issued with       *)
(* time_delta one greater than during the completed window.                 *)
C5_Widening ==
  \A i \in 1..Len(fetches) : \A j \in 2..Len(fetches) :
    ( /\ Reported(i)
      /\ 2 * fetches[i].total < self.per_page
      /\ fetches[j - 1].qs = fetches[i].qs
      /\ fetches[j].qs /= fetches[i].qs ) =>
        fetches[j].td = fetches[i].td + 1

(* C6: a Search that fails at time_delta = 1 is reported as fatal and the   *)
(* traversal does not go on past it: the window does not slide and no       *)
(* further request is issued.                                               *)
FloorFailure(i) ==
  fetches[i].mode = "SEARCH" /\ fetches[i].status /= 200 /\ fetches[i].td = 1

C6_FloorNotSilent ==
  \A i \in 1..Len(fetches) :
    FloorFailure(i) =>
      /\ Count(fatals, fetches[i].qs) >= 1
      /\ i = Len(fetches)
      /\ self.query_start_date = fetches[i].qs

(* C7: with a service that fails every request and a range of several days, *)
(* no failed request is repeated, the fatal condition is reported exactly   *)
(* once for each window attempted, and the traversal halts.                 *)
C7_FloorAbort ==
  (svc = "failAll" /\ self.end_date > self.start_date) =>
    /\ \A i, j \in 1..Len(fetches) :
         (i < j /\ fetches[i].qs = fetches[j].qs) => fetches[i].mode /= fetches[j].mode
    /\ \A i \in 1..Len(fetches) : Count(fatals, fetches[i].qs) = 1
    /\ ~Done => ~Overrun

(* C8: with a service that fails exactly the windows wider than one day, a  *)
(* traversal of a 5-day range halts, never reports the fatal condition, and *)
(* makes every successful request with time_delta = 1.                      *)
C8_ShrinkConverges ==
  (svc = "failWide" /\ self.end_date = self.start_date + 4) =>
    /\ fatals = <<>>
    /\ \A i \in 1..Len(fetches) : fetches[i].status = 200 => fetches[i].td = 1
    /\ ~Done => ~Overrun

(* C9: 25, 3 and 3 documents on three days, per_page = 10, always 200: the  *)
(* traversal emits exactly 4 batches holding 31 documents, none twice.      *)
IsScenario ==
  /\ self.end_date = 2
  /\ self.per_page = 10
  /\ docs = [d \in 0..3 |-> <<25, 3, 3, 0>>[d + 1]]
  /\ svc = "ok"

C9_Scenario ==
  (IsScenario /\ Done /\ Emits) =>
    /\ Len(Emitted) = 4
    /\ Len(Flatten(Emitted)) = 31
    /\ \A i, j \in 1..Len(Flatten(Emitted)) :
         i /= j => Flatten(Emitted)[i] /= Flatten(Emitted)[j]

(* C10: every request answered 200 produces exactly one emitted batch with  *)
(* that page's documents in service order, an empty page an empty batch.    *)
RECURSIVE Pages(_, _)
\* one batch per successful request i..Len(fetches), in order; with skipEmpty
\* only per request that returned documents
Pages(i, skipEmpty) ==
  IF i > Len(fetches) THEN <<>>
  ELSE (IF fetches[i].status = 200 /\ (skipEmpty => fetches[i].containers /= <<>>)
          THEN <<[docs |-> fetches[i].containers, fetch |-> i]>> ELSE <<>>)
       \o Pages(i + 1, skipEmpty)

\* the batches handed out, given the batches the requests so far call for:
\* the caller has all of them; the sink lacks the last while run() is at yield
Delivered(expected) ==
  /\ self.yield_results => yielded = expected
  /\ self.save_results =>
       saved = IF pc = "yield" THEN SubSeq(expected, 1, Len(expected) - 1) ELSE expected

----------------------------------------------------------------------------
(* C11: the end_date given to WSK.search governs the traversal: the Search  *)
(* it creates has that end_date, and a finished traversal has queried a     *)
(* window that reaches it.                                                  *)
C11_EndDateGoverns ==
  /\ self.end_date = caller.end_date
  /\ Done => \E i \in 1..Len(fetches) : fetches[i].qe >= caller.end_date

(* C12: with start_date = end_date, run() issues a Search for a window      *)
(* starting at start_date before it returns, and it returns: it is never    *)
(* stopped short of its end and never overruns.                             *)
C12_OneDay ==
  (self.end_date = self.start_date) =>
    /\ Len(fetches) >= 1 =>
         fetches[1].mode = "SEARCH" /\ fetches[1].qs = self.start_date
    /\ Done => Len(fetches) >= 1
    /\ ~Overrun
    /\ Done \/ ENABLED Next

\* a one-day traversal that took several pages has returned
C12_Witness == self.end_date = self.start_date /\ Done /\ Len(fetches) >= 2

(* C13: once run() has returned, calling run() again on the same Search     *)
(* object issues no request and emits no batch.                             *)
C13_NotRestartable == [][completed >= 1 => UNCHANGED <<fetches, yielded, saved>>]_vars

\* run() has returned a second time, after a first traversal that emitted
C13_Witness == completed = 2 /\ Len(fetches) >= 1 /\ Len(Emitted) >= 1

(* C14: no request is issued for a window that ends after end_date.         *)
C14_WindowWithinRange ==
  \A i \in 1..Len(fetches) : fetches[i].qe <= self.end_date

(* C15: the first request of every window is a Search for the results       *)
(* 1..per_page, issued with total_results unknown, whatever the previous    *)
(* window's total was.                                                      *)
\* run() is about to issue the first request of its current window
AtWindowStart ==
  /\ pc = "loop"
  /\ self.more_days_to_query \/ self.more_pages_to_query
  /\ \A i \in 1..Len(fetches) : fetches[i].qs /= self.query_start_date

C15_FirstFetchOfWindow ==
  /\ AtWindowStart =>
       /\ self.result_start = 1
       /\ self.result_end = self.per_page
       /\ self.total_results = Inf
  /\ \A j \in 1..Len(fetches) :
       (j = 1 \/ fetches[j].qs /= fetches[j - 1].qs) =>
         /\ fetches[j].mode = "SEARCH"
         /\ fetches[j].begin = 1
         /\ fetches[j].end = self.per_page

(* C16: every GetDocumentsByRange request carries the search_id returned by *)
(* a successful Search for the window the engine is on.                     *)
C16_SearchIdCorrelation ==
  \A j \in 1..Len(fetches) :
    fetches[j].mode = "RANGE" =>
      /\ fetches[j].sid \in 1..(j - 1)
      /\ fetches[fetches[j].sid].mode = "SEARCH"
      /\ fetches[fetches[j].sid].status = 200
      /\ fetches[fetches[j].sid].qs = fetches[j].qs
      /\ fetches[fetches[j].sid].qe = fetches[j].qe

(* C17: a Search answered non-200 at time_delta > 1 is followed by a Search *)
(* for the same window start and the same results 1..per_page, with         *)
(* time_delta = ceil(time_delta / 2) and the window end at start + the new  *)
(* time_delta; the failed request emits no batch.                           *)
ShrinkFailure(i) ==
  fetches[i].mode = "SEARCH" /\ fetches[i].status /= 200 /\ fetches[i].td > 1

C17_ShrinkStep ==
  \A i \in 1..Len(fetches) :
    ShrinkFailure(i) =>
      /\ \A k \in 1..Len(yielded) : yielded[k].fetch /= i
      /\ \A k \in 1..Len(saved) : saved[k].fetch /= i
      /\ i < Len(fetches)
      /\ fetches[i + 1].mode = "SEARCH"
      /\ fetches[i + 1].qs = fetches[i].qs
      /\ 2 * fetches[i + 1].td \in {fetches[i].td, fetches[i].td + 1}
      /\ fetches[i + 1].qe = fetches[i].qs + fetches[i + 1].td
      /\ fetches[i].begin = 1 /\ fetches[i + 1].begin = 1
      /\ fetches[i].end = self.per_page /\ fetches[i + 1].end = self.per_page

\* a Search at time_delta = 3 failed, was retried at 2, failed, and succeeded at 1
C17_Witness ==
  \E i \in 1..(Len(fetches) - 2) :
    /\ ShrinkFailure(i) /\ fetches[i].td = 3
    /\ ShrinkFailure(i + 1)
    /\ fetches[i + 2].status = 200 /\ fetches[i + 2].td = 1

(* C18: a GetDocumentsByRange request answered non-200 gets the failure     *)
(* policy: at time_delta > 1 the window is retried from its first page with *)
(* a Search, at time_delta = 1 the fatal condition is reported; the page    *)
(* window is not advanced as after a successful page.                       *)
C18_RangeFailurePolicy ==
  \A j \in 1..Len(fetches) :
    (fetches[j].mode = "RANGE" /\ fetches[j].status /= 200) =>
      /\ fetches[j].td = 1 => Count(fatals, fetches[j].qs) >= 1
      /\ j < Len(fetches) =>
           /\ fetches[j].td > 1
           /\ fetches[j + 1].mode = "SEARCH"
           /\ fetches[j + 1].qs = fetches[j].qs

(* C19: time_delta is always >= 1; it grows only by 1, on leaving a window  *)
(* whose total was below per_page / 2, and it shrinks only by search()      *)
(* halving it (rounding up) after a Search answered non-200.                *)
\* the requests one step adds form a chain of failed Searches, each retried
\* at half the time_delta, and the step leaves time_delta at the last one's
ShrinkChain ==
  /\ Len(fetches') > Len(fetches)
  /\ fetches'[Len(fetches) + 1].td = self.time_delta
  /\ fetches'[Len(fetches')].td = self'.time_delta
  /\ \A k \in (Len(fetches) + 1)..(Len(fetches') - 1) :
       /\ fetches'[k].mode = "SEARCH"
       /\ fetches'[k].status /= 200
       /\ fetches'[k].td > 1
       /\ fetches'[k + 1].td = CeilDiv(fetches'[k].td, 2)

\* the step leaves a window whose Search reported a total below per_page / 2
SparseWindowLeft ==
  /\ self'.query_start_date /= self.query_start_date
  /\ \E i \in 1..Len(fetches') :
       /\ fetches'[i].mode = "SEARCH"
       /\ fetches'[i].qs = self.query_start_date
       /\ 2 * fetches'[i].total < self.per_page

TimeDeltaStep ==
  /\ self'.time_delta >= 1
  /\ self'.time_delta > self.time_delta =>
       self'.time_delta = self.time_delta + 1 /\ SparseWindowLeft
  /\ self'.time_delta < self.time_delta => ShrinkChain

C19_TimeDeltaDiscipline == [][TimeDeltaStep]_vars

\* search() has lowered time_delta below what an earlier request was issued at
C19_Witness ==
  \E i \in 1..Len(fetches) : fetches[i].td > self.time_delta /\ self.time_delta >= 1

(* C20: every request is issued for a window whose width equals time_delta: *)
(* query_end_date - query_start_date = time_delta, and the end is not       *)
(* before the start.                                                        *)
C20_WidthIsTimeDelta ==
  \A i \in 1..Len(fetches) :
    /\ fetches[i].qe - fetches[i].qs = fetches[i].td
    /\ fetches[i].qe >= fetches[i].qs

\* a request was issued after a shrink-retry and after a slide of the window
C20_Witness ==
  \E i, j \in 1..Len(fetches) :
    /\ i < j
    /\ ShrinkFailure(i)
    /\ fetches[j].qs > fetches[i].qs

----------------------------------------------------------------------------
(* C21: in every state result_start >= 1 and                                *)
(* result_end - result_start + 1 = per_page, so result_start is congruent   *)
(* to 1 modulo per_page; every request was issued with such a page window;  *)
(* and every step leaves the page window alone, adds per_page to both of    *)
(* its bounds, or returns it to (1, per_page).                              *)
PageWindow(b, e) ==
  /\ b >= 1
  /\ e - b + 1 = self.per_page
  /\ (b - 1) % self.per_page = 0

PageWindowStep ==
  \/ UNCHANGED <<self.result_start, self.result_end>>
  \/ /\ self'.result_start = self.result_start + self.per_page
     /\ self'.result_end = self.result_end + self.per_page
  \/ /\ self'.result_start = 1
     /\ self'.result_end = self.per_page

C21_PageWindow ==
  /\ [](/\ PageWindow(self.result_start, self.result_end)
        /\ \A i \in 1..Len(fetches) : PageWindow(fetches[i].begin, fetches[i].end))
  /\ [][PageWindowStep]_vars

\* the third page of a window was requested, and a later window from its first
C21_Witness ==
  \E i, j \in 1..Len(fetches) :
    /\ i < j
    /\ fetches[i].begin = 2 * self.per_page + 1
    /\ fetches[j].begin = 1
    /\ fetches[j].qs > fetches[i].qs

----------------------------------------------------------------------------
(* C22: a window for which the service reports a total equal to per_page is *)
(* fetched with exactly one request, the Search: no GetDocumentsByRange     *)
(* request follows for it, the next request (if any) is the Search of a     *)
(* later window, and time_delta is not raised on leaving it.                *)
ExactPage(i) == Reported(i) /\ fetches[i].total = self.per_page

\* the requests issued for the date window of request i
WindowFetches(i) ==
  {j \in 1..Len(fetches) : fetches[j].qs = fetches[i].qs /\ fetches[j].qe = fetches[i].qe}

C22_ExactPage ==
  \A i \in 1..Len(fetches) :
    ExactPage(i) =>
      /\ WindowFetches(i) = {i}
      /\ fetches[i].begin = 1 /\ fetches[i].end = self.per_page
      /\ Len(fetches[i].containers) = self.per_page
      /\ i < Len(fetches) =>
           /\ fetches[i + 1].mode = "SEARCH"
           /\ fetches[i + 1].qs > fetches[i].qs
           /\ fetches[i + 1].td <= fetches[i].td
      /\ i = Len(fetches) =>
           /\ self.time_delta <= fetches[i].td
           /\ pc = "loop" => (self.result_start = 1 \/ ~self.more_days_to_query)

\* run() has returned after a window of exactly per_page >= 2 matches that
\* was not the last window
C22_Witness ==
  /\ Done
  /\ self.per_page >= 2
  /\ \E i \in 1..(Len(fetches) - 1) : ExactPage(i)

----------------------------------------------------------------------------
(* C23: decoding the result count never raises: a Search answered 200 whose *)
(* <documentsFound> is absent, or present but not a numeral, is read as a   *)
(* total of 0, and no exception leaves the page fetch: run() is never ended *)
(* by one.                                                                  *)
\* request i is a Search answered 200 without a count that can be read
CountUnreadable(i) ==
  /\ fetches[i].mode = "SEARCH"
  /\ fetches[i].status = 200
  /\ svc \in {"noCount", "emptyCount", "badCount"}

C23_CountNeverRaises ==
  /\ pc /= "raised"
  /\ \A i \in 1..Len(fetches) : CountUnreadable(i) => fetches[i].total = 0

----------------------------------------------------------------------------
(* C24: a document container that cannot be parsed is left out of its       *)
(* page's batch and nothing else is: every emitted batch holds exactly the  *)
(* records of the containers of its page that parse, in container order; a  *)
(* page with a container that parses is emitted; and no exception ends the  *)
(* page fetch or the traversal.                                             *)
\* the records get_documents owes for the page of request i
PageRecords(i) == SelectSeq(fetches[i].containers, Parses)

\* the page of request i has a container that fails and one that parses
MixedPage(i) ==
  /\ PageRecords(i) /= <<>>
  /\ PageRecords(i) /= fetches[i].containers

C24_ParseFailureIsolated ==
  /\ pc /= "raised"
  /\ \A k \in 1..Len(yielded) : yielded[k].docs = PageRecords(yielded[k].fetch)
  /\ \A k \in 1..Len(saved) : saved[k].docs = PageRecords(saved[k].fetch)
  /\ \A i \in 1..Len(fetches) :
       (Emits /\ PageRecords(i) /= <<>>) =>
         \E k \in 1..Len(Emitted) : Emitted[k].fetch = i

\* run() has returned after a page whose second of three containers failed
C24_Witness ==
  /\ Done
  /\ \E i \in 1..Len(fetches) :
       /\ MixedPage(i)
       /\ Len(fetches[i].containers) = 3
       /\ ~Parses(fetches[i].containers[2])
       /\ \E k \in 1..Len(saved) : saved[k].fetch = i

----------------------------------------------------------------------------
(* C25: with yield_results and save_results both set, once the caller has   *)
(* stopped (run() returned, or the caller stopped consuming after a batch)  *)
(* every batch the caller received has been passed to save_results.         *)
CallerStopped == pc \in {"done", "closed"}

C25_YieldedArePersisted ==
  (self.yield_results /\ self.save_results /\ CallerStopped) =>
    \A k \in 1..Len(yielded) : \E j \in 1..Len(saved) : saved[j] = yielded[k]

----------------------------------------------------------------------------
(* WSK.get_all_sources and WSK.browse_sources                               *)
(*                                                                          *)
(* Folders are numbered 1..Len(tree.parent); folder 0 stands for the        *)
(* request without a folder id, which lists the top-level folders.  A       *)
(* folder lists its child folders, or (a leaf) its sources; source k of     *)
(* folder f is <<f, k>>.                                                    *)

Folders == 1..Len(tree.parent)

RECURSIVE ChildrenFrom(_, _)
\* the child folders of f among g..Len(tree.parent), in the service's order
ChildrenFrom(f, g) ==
  IF g > Len(tree.parent) THEN <<>>
  ELSE (IF tree.parent[g] = f THEN <<[folder_id |-> g]>> ELSE <<>>) \o ChildrenFrom(f, g + 1)

\* the <source> elements of the response for folder f
SourceElements(f) ==
  IF f \in Folders /\ ChildrenFrom(f, 1) = <<>>
    THEN [k \in 1..tree.nsrc[f] |-> [source_id |-> <<f, k>>]]
    ELSE <<>>

\* WSK.browse_sources(folder_id): the sources if the response has any, else
\* the folders
browse_sources(f) ==
  IF SourceElements(f) /= <<>> THEN SourceElements(f) ELSE ChildrenFrom(f, 1)

\* lines 120-124: the top-level folders, then the first one's content;
\* root_folders[0] raises IndexError when there is no top-level folder
BrowseRoots ==
  /\ walk.pc = "start"
  /\ LET root_folders == browse_sources(0)
     IN IF root_folders = <<>>
          THEN walk' = [walk EXCEPT !.pc = "raised", !.browsed = <<0>>]
          ELSE walk' = [walk EXCEPT
                 !.pc = "loop",
                 !.sub_folders = browse_sources(root_folders[1].folder_id),
                 !.browsed = <<0, root_folders[1].folder_id>>]
  /\ UNCHANGED <<self, docs, bad, svc, pc, pending, fetches, yielded, saved, fatals, caller,
                 completed, tree>>

\* lines 126-134, one iteration: sub_folder['folder_id'] raises KeyError for an
\* entry that is a source, result[0] raises IndexError for an empty result
Descend ==
  /\ walk.pc = "loop"
  /\ walk.sub_folders /= <<>>
  /\ LET sub_folder == Head(walk.sub_folders)
         rest == Tail(walk.sub_folders)
     IN IF "folder_id" \notin DOMAIN sub_folder
          THEN walk' = [walk EXCEPT !.pc = "raised", !.sub_folders = rest]
          ELSE LET result == browse_sources(sub_folder.folder_id)
                   asked == Append(walk.browsed, sub_folder.folder_id)
               IN IF result = <<>>
                    THEN walk' = [walk EXCEPT !.pc = "raised", !.sub_folders = rest,
                                              !.browsed = asked]
                    ELSE IF "source_id" \notin DOMAIN result[1]
                    THEN walk' = [walk EXCEPT !.sub_folders = rest \o result,
                                              !.browsed = asked]
                    ELSE walk' = [walk EXCEPT !.sub_folders = rest,
                                              !.sources = walk.sources \o result,
                                              !.browsed = asked]
  /\ UNCHANGED <<self, docs, bad, svc, pc, pending, fetches, yielded, saved, fatals, caller,
                 completed, tree>>

\* lines 126 and 135: the list is empty, return sources
ReturnSources ==
  /\ walk.pc = "loop"
  /\ walk.sub_folders = <<>>
  /\ walk' = [walk EXCEPT !.pc = "returned"]
  /\ UNCHANGED <<self, docs, bad, svc, pc, pending, fetches, yielded, saved, fatals, caller,
                 completed, tree>>

\* every tree of 1..MaxFolders folders in which a folder's parent has a lower
\* number, with 0..MaxSources sources in each leaf
InitSources ==
  /\ \E n \in 1..MaxFolders :
       \E parent \in [1..n -> 0..(n - 1)], nsrc \in [1..n -> 0..MaxSources] :
         /\ \A f \in 1..n : parent[f] < f
         /\ \A f \in 1..n : (\E g \in 1..n : parent[g] = f) => nsrc[f] = 0
         /\ tree = [parent |-> parent, nsrc |-> nsrc]
  /\ walk = [pc |-> "start", sub_folders |-> <<>>, sources |-> <<>>, browsed |-> <<>>]
  /\ self = SearchInit(0, 1, FALSE, FALSE)
  /\ caller = Kwargs(0, 1, FALSE, FALSE, 1)
  /\ docs = [d \in 0..1 |-> 0]
  /\ bad = {}
  /\ svc = "ok"
  /\ pc = "new"
  /\ pending = <<>>
  /\ fetches = <<>>
  /\ yielded = <<>>
  /\ saved = <<>>
  /\ fatals = <<>>
  /\ completed = 0

NextSources == BrowseRoots \/ Descend \/ ReturnSources

SpecSources == InitSources /\ [][NextSources]_vars

RECURSIVE Under(_, _)
\* folder g lies below folder f
Under(g, f) ==
  /\ g \in Folders
  /\ tree.parent[g] /= 0
  /\ tree.parent[g] = f \/ Under(tree.parent[g], f)

\* the first top-level folder
FirstTop == CHOOSE f \in Folders : tree.parent[f] = 0 /\ \A g \in Folders : tree.parent[g] = 0 => f <= g

\* the sources of the leaf folders at or below the first top-level folder
LeafSources ==
  {<<f, k>> : f \in {g \in Folders : g = FirstTop \/ Under(g, FirstTop)}, k \in 1..MaxSources}
    \cap {fk \in Folders \X (1..MaxSources) : fk[2] <= Len(SourceElements(fk[1]))}

(* C26: for every finite folder tree, empty folders included,               *)
(* get_all_sources ends without an exception, requests no folder twice,     *)
(* and when it has returned it has requested every folder below the first   *)
(* top-level folder and returns the sources of the leaf folders under it,   *)
(* each once and no others.                                                 *)
C26_SourceTraversal ==
  /\ walk.pc /= "raised"
  /\ \A i, j \in 1..Len(walk.browsed) : i /= j => walk.browsed[i] /= walk.browsed[j]
  /\ \A i, j \in 1..Len(walk.sources) : i /= j => walk.sources[i] /= walk.sources[j]
  /\ walk.pc = "returned" =>
       /\ {walk.browsed[i] : i \in 1..Len(walk.browsed)} =
            {0, FirstTop} \cup {g \in Folders : Under(g, FirstTop)}
       /\ {walk.sources[i].source_id : i \in 1..Len(walk.sources)} = LeafSources

====
